---- MODULE Spec2Model ----
(***************************************************************************)
(* Model of lib/seedlink-websocket.js: the websocket relay of the Seedlink *)
(* proxy.  One action per event handler of the server: a new connection,   *)
(* an incoming message, the close event of a socket, a pong, the heartbeat *)
(* interval, the termination signals, and a record emitted by a channel.   *)
(*                                                                         *)
(* Strings that the code computes (channel names, joined lists) are tuples *)
(* of UTF-16 code units, so that sort() and join() are computed and not    *)
(* assumed.  A text is a pair: a literal of the source and the computed    *)
(* part that the code concatenates to it.                                  *)
(***************************************************************************)
EXTENDS Integers, Sequences, FiniteSets, TLC

\* Number of websocket connections the model follows.
MaxSockets == 2
\* The count of unanswered heartbeat ticks saturates here.
MaxTicks == 3

Sockets == 1..MaxSockets

VARIABLES
  channels,     \* this.channels: the proxies by name, in insertion order
  subscribers,  \* per channel name, how often each socket is in its _sockets
  debug,        \* this.configuration.__DEBUG__
  listening,    \* the websocket server accepts connections
  interval,     \* the heartbeat interval is set
  signals,      \* termination signals whose once-handler is still attached
  state,        \* per socket: "idle", "open", "closing", "closed"
  listeners,    \* per socket: the events that have a listener attached
  flag,         \* per socket: __receivedHeartbeat
  ponged,       \* history: the socket has sent a pong at some time
  ticks,        \* history: heartbeat ticks seen while open and never ponged
  out,          \* per socket: frames sent to it in the last step
  last,         \* the event handled in the last step
  pre           \* history: the subscribers before the last step

vars == <<channels, subscribers, debug, listening, interval, signals, state,
          listeners, flag, ponged, ticks, out, last, pre>>

----------------------------------------------------------------------------
\* Strings as tuples of code units.

SP  == <<32>>
DOT == <<46>>

\* s sorts strictly before t in code-unit order (Array.prototype.sort).
RECURSIVE LexLess(_, _)
LexLess(s, t) ==
  IF s = <<>> THEN t # <<>>
  ELSE IF t = <<>> THEN FALSE
  ELSE IF Head(s) # Head(t) THEN Head(s) < Head(t)
  ELSE LexLess(Tail(s), Tail(t))

\* Array.prototype.join: the elements with sep between them.
RECURSIVE join(_, _)
join(xs, sep) ==
  IF xs = <<>> THEN <<>>
  ELSE IF Len(xs) = 1 THEN xs[1]
  ELSE xs[1] \o sep \o join(Tail(xs), sep)

\* Insert x into the sorted sequence xs.
RECURSIVE insertSorted(_, _)
insertSorted(x, xs) ==
  IF xs = <<>> THEN <<x>>
  ELSE IF LexLess(Head(xs), x) THEN <<Head(xs)>> \o insertSorted(x, Tail(xs))
  ELSE <<x>> \o xs

\* A sort that leaves the order as it is.
unsorted(xs) == xs

\* Array.prototype.sort with the default comparison.
RECURSIVE sort(_)
sort(xs) == IF xs = <<>> THEN <<>> ELSE insertSorted(Head(xs), sort(Tail(xs)))

----------------------------------------------------------------------------
\* The static channel configuration (require("./channel-config")).

NameOPLO == <<79, 80>>
NameHGN  == <<72, 71, 78>>
NameNone == <<88>>

Selector(n, s, l, c) == [network |-> n, station |-> s, location |-> l, channel |-> c]

ChannelConfig ==
  << [name |-> NameOPLO, selectors |-> << Selector(<<78>>, <<79>>, <<>>, <<90>>) >>],
     [name |-> NameHGN,  selectors |-> << Selector(<<78>>, <<72>>, <<48>>, <<90>>),
                                          Selector(<<78>>, <<72>>, <<48>>, <<69>>) >>] >>

\* Positions of the proxy called name in the channel map.
indexOf(chs, name) == {i \in 1..Len(chs) : chs[i].name = name}

\* this.channels[channel.name] = new SeedlinkProxy(channel), entry by entry.
RECURSIVE createSeedlinkProxies(_, _)
createSeedlinkProxies(config, chs) ==
  IF config = <<>> THEN chs
  ELSE LET c == Head(config)
           at == indexOf(chs, c.name)
           next == IF at = {} THEN Append(chs, c)
                   ELSE [i \in 1..Len(chs) |-> IF i \in at THEN c ELSE chs[i]]
       IN createSeedlinkProxies(Tail(config), next)

\* Object.keys(this.channels)
keys(chs) == [i \in 1..Len(chs) |-> chs[i].name]

ChannelNames == {ChannelConfig[i].name : i \in 1..Len(ChannelConfig)}

----------------------------------------------------------------------------
\* JSON values of a decoded message.

Str(s) == [t |-> "string", v |-> s]
JTrue  == [t |-> "boolean", v |-> <<1>>]
JFalse == [t |-> "boolean", v |-> <<0>>]
JZero  == [t |-> "number", v |-> <<0>>]
JNull  == [t |-> "null", v |-> <<>>]

\* A test that takes every value for truthy.
truthyAny(x) == TRUE

\* if(x): the value is truthy.
truthy(x) ==
  CASE x.t = "string"  -> x.v # <<>>
    [] x.t = "boolean" -> x.v = <<1>>
    [] x.t = "number"  -> x.v # <<0>>
    [] OTHER -> FALSE

\* String(x), as applied by hasOwnProperty and by string concatenation.
toString(x) ==
  CASE x.t = "string" -> x.v
    [] x.t = "boolean" -> IF x.v = <<1>> THEN <<116, 114, 117, 101>>
                          ELSE <<102, 97, 108, 115, 101>>
    [] x.t = "number" -> <<48 + x.v[1]>>
    [] OTHER -> <<110, 117, 108, 108>>

----------------------------------------------------------------------------
\* Values handed to the "write" event, and the frames made of them.

JsError(lit, arg)  == [cls |-> "Error",  lit |-> lit, arg |-> arg]
JsString(lit, arg) == [cls |-> "string", lit |-> lit, arg |-> arg]
\* An unpacked mSEED record of the channel called name.
JsRecord(name)     == [cls |-> "object", lit |-> "record", arg |-> name]

Frame(type, lit, arg, stack) == [type |-> type, lit |-> lit, arg |-> arg, stack |-> stack]

\* mapMessage that always gives the stack of an Error.
mapMessageStack(object) ==
  IF object.cls = "Error"
    THEN Frame("error", object.lit, object.arg, TRUE)
  ELSE IF object.cls = "string"
    THEN Frame("success", object.lit, object.arg, FALSE)
  ELSE Frame("object", object.lit, object.arg, FALSE)

\* SeedlinkWebsocket.prototype.mapMessage
mapMessage(object) ==
  IF object.cls = "Error"
    THEN Frame("error", object.lit, object.arg, debug)
  ELSE IF object.cls = "string"
    THEN Frame("success", object.lit, object.arg, FALSE)
  ELSE Frame("object", object.lit, object.arg, FALSE)

\* A handler works on a context: the subscriber collections, the frames sent
\* so far in this step and the listeners attached to each socket.
Context(subs, lst) ==
  [subs |-> subs, out |-> [s \in Sockets |-> <<>>], listeners |-> lst]

\* socket.on(event, ...)
on(ctx, socket, event) ==
  [ctx EXCEPT !.listeners[socket] = @ \cup {event}]

\* The "write" listener of a socket: map the value and send it.
writeHandler(ctx, socket, object) ==
  [ctx EXCEPT !.out[socket] = Append(@, mapMessage(object))]

\* socket.emit("write", object): runs the listener if one is attached.
emitWrite(ctx, socket, object) ==
  IF "write" \in ctx.listeners[socket]
    THEN writeHandler(ctx, socket, object)
    ELSE ctx

----------------------------------------------------------------------------
\* The channel proxies (lib/seedlink-proxy): a collection of sockets each.

NoSockets == [s \in Sockets |-> 0]

\* SeedlinkProxy.prototype.addSocket as an array push (not idempotent).
addSocketPush(sockets, socket) == [sockets EXCEPT ![socket] = @ + 1]

\* SeedlinkProxy.prototype.addSocket: adding a member again changes nothing.
addSocket(sockets, socket) ==
  IF sockets[socket] > 0 THEN sockets ELSE [sockets EXCEPT ![socket] = 1]

\* SeedlinkProxy.prototype.removeSocket: removing a non-member changes nothing.
removeSocket(sockets, socket) == [sockets EXCEPT ![socket] = 0]

\* The sockets a record of the channel is written to.
membersOf(subs, name) == {s \in Sockets : subs[name][s] > 0}

\* SeedlinkWebsocket.prototype.channelExists
channelExists(channel) == indexOf(channels, toString(channel)) # {}

\* SeedlinkWebsocket.prototype.getSeedlinkProxy
getSeedlinkProxy(channel) ==
  channels[CHOOSE i \in indexOf(channels, toString(channel)) : TRUE]

\* subscribe that ignores an unknown channel without a reply.
subscribeSilent(ctx, channel, socket) ==
  IF ~channelExists(channel)
    THEN ctx
    ELSE [ctx EXCEPT !.subs[toString(channel)] = addSocket(@, socket)]

\* SeedlinkWebsocket.prototype.subscribe
subscribe(ctx, channel, socket) ==
  IF ~channelExists(channel)
    THEN emitWrite(ctx, socket,
           JsError("Invalid channel subscription requested: ", toString(channel)))
    ELSE [ctx EXCEPT !.subs[toString(channel)] = addSocket(@, socket)]

\* unsubscribe that reports a socket that is not subscribed.
unsubscribeStrict(ctx, channel, socket) ==
  IF ~channelExists(channel) \/ ctx.subs[toString(channel)][socket] = 0
    THEN emitWrite(ctx, socket,
           JsError("Invalid channel unsubscription requested: ", toString(channel)))
    ELSE [ctx EXCEPT !.subs[toString(channel)] = removeSocket(@, socket)]

\* SeedlinkWebsocket.prototype.unsubscribe
unsubscribe(ctx, channel, socket) ==
  IF ~channelExists(channel)
    THEN emitWrite(ctx, socket,
           JsError("Invalid channel unsubscription requested: ", toString(channel)))
    ELSE [ctx EXCEPT !.subs[toString(channel)] = removeSocket(@, socket)]

\* unsubscribeAll, over the proxies chs that are still to be visited.
RECURSIVE unsubscribeEach(_, _, _)
unsubscribeEach(ctx, chs, socket) ==
  IF chs = <<>> THEN ctx
  ELSE unsubscribeEach(unsubscribe(ctx, Str(Head(chs).name), socket), Tail(chs), socket)

\* unsubscribeAll that stops after the first channel.
unsubscribeFirst(ctx, socket) == unsubscribeEach(ctx, SubSeq(channels, 1, 1), socket)

\* SeedlinkWebsocket.prototype.unsubscribeAll
unsubscribeAll(ctx, socket) == unsubscribeEach(ctx, channels, socket)

----------------------------------------------------------------------------
\* Incoming messages.  A message is text; JSON.parse either throws or gives
\* a value.  An object is a function from the keys it has to their values.

Object(fields) == [parse |-> "object", obj |-> fields]
\* Text that is no JSON: JSON.parse throws a SyntaxError.
Garbage == [parse |-> "SyntaxError", obj |-> <<>>]
\* The JSON text null: Object.keys(null) throws a TypeError.
JsonNull == [parse |-> "null", obj |-> <<>>]

AllKeys == {"subscribe", "unsubscribe", "info", "channels", "foo"}

\* The values each key is sent with.
ValuesOf(k) ==
  CASE k = "subscribe"   -> {Str(NameHGN), Str(NameOPLO), Str(NameNone), Str(<<>>), JTrue,
                             JZero, JNull}
    [] k = "unsubscribe" -> {Str(NameHGN), Str(NameOPLO), Str(NameNone), Str(<<>>), JNull}
    [] k = "info"        -> {Str(NameHGN), Str(NameOPLO), Str(NameNone), Str(<<>>), JZero}
    [] k = "channels"    -> {JTrue, JFalse, JZero, JNull}
    [] OTHER             -> {Str(<<98, 97, 114>>)}

AllValues == UNION {ValuesOf(k) : k \in AllKeys}

\* Every object over the keys, each present key with one of its values.
AllObjects ==
  UNION { {f \in [K -> AllValues] : \A k \in K : f[k] \in ValuesOf(k)} : K \in SUBSET AllKeys }

AllMessages == {Garbage, JsonNull} \cup {Object(f) : f \in AllObjects}

\* json.key of a decoded object is truthy.
given(json, k) == k \in DOMAIN json /\ truthy(json[k])

OPERATIONS == <<"subscribe", "unsubscribe", "channels", "info">>

RECURSIVE joinText(_, _)
joinText(xs, sep) ==
  IF xs = <<>> THEN ""
  ELSE IF Len(xs) = 1 THEN xs[1]
  ELSE xs[1] \o sep \o joinText(Tail(xs), sep)

\* isAllowed that accepts every key.
isAllowedAny(x) == TRUE

\* handleIncomingMessage::isAllowed
isAllowed(x) == \E i \in 1..Len(OPERATIONS) : OPERATIONS[i] = x

\* handleIncomingMessage::formatInfoString
formatInfoString(x) == join(<<x.network, x.station, x.location, x.channel>>, DOT)

\* Array.prototype.map(formatInfoString)
mapInfo(xs) == [i \in 1..Len(xs) |-> formatInfoString(xs[i])]

\* Outcome of a function that may throw.
Returned(ctx) == [ctx |-> ctx, thrown |-> <<>>]
Thrown(ctx, e) == [ctx |-> ctx, thrown |-> <<e>>]

InvalidOperation ==
  JsError("Invalid operation requested. Expected: " \o joinText(OPERATIONS, ", "), <<>>)

\* The four operations of handleIncomingMessage, in the order of the code.
doSubscribe(ctx, json, socket) ==
  IF given(json, "subscribe") THEN subscribe(ctx, json["subscribe"], socket) ELSE ctx

doUnsubscribe(ctx, json, socket) ==
  IF given(json, "unsubscribe") THEN unsubscribe(ctx, json["unsubscribe"], socket) ELSE ctx

doInfoLoud(ctx, json, socket) ==
  IF ~given(json, "info") THEN ctx
  ELSE IF channelExists(json["info"])
    THEN emitWrite(ctx, socket,
           JsString("", join(mapInfo(getSeedlinkProxy(json["info"]).selectors), SP)))
    ELSE emitWrite(ctx, socket,
           JsError("Invalid channel info requested: ", toString(json["info"])))

doInfo(ctx, json, socket) ==
  IF given(json, "info") /\ channelExists(json["info"])
    THEN emitWrite(ctx, socket,
           JsString("", join(mapInfo(getSeedlinkProxy(json["info"]).selectors), SP)))
    ELSE ctx

doChannels(ctx, json, socket) ==
  IF given(json, "channels")
    THEN emitWrite(ctx, socket, JsString("", join(sort(keys(channels)), SP)))
    ELSE ctx

\* handleIncomingMessage that unsubscribes before it subscribes.
handleUnsubscribeFirst(ctx, socket, message) ==
  IF message.parse = "SyntaxError"
    THEN Thrown(ctx, JsError("Unexpected token in JSON", <<>>))
  ELSE IF message.parse = "null"
    THEN Thrown(ctx, JsError("Cannot convert undefined or null to object", <<>>))
  ELSE IF ~(\A k \in DOMAIN message.obj : isAllowed(k))
    THEN Thrown(ctx, InvalidOperation)
  ELSE Returned(doChannels(doInfo(doSubscribe(doUnsubscribe(
                  ctx, message.obj, socket), message.obj, socket),
                  message.obj, socket), message.obj, socket))

\* SeedlinkWebsocket.prototype.handleIncomingMessage
handleIncomingMessage(ctx, socket, message) ==
  IF message.parse = "SyntaxError"
    THEN Thrown(ctx, JsError("Unexpected token in JSON", <<>>))
  ELSE IF message.parse = "null"
    THEN Thrown(ctx, JsError("Cannot convert undefined or null to object", <<>>))
  ELSE IF ~(\A k \in DOMAIN message.obj : isAllowed(k))
    THEN Thrown(ctx, InvalidOperation)
  ELSE Returned(doChannels(doInfo(doUnsubscribe(doSubscribe(
                  ctx, message.obj, socket), message.obj, socket),
                  message.obj, socket), message.obj, socket))

\* A "message" listener that writes what is thrown to every socket.
messageHandlerBroadcast(ctx, socket, message) ==
  LET r == handleIncomingMessage(ctx, socket, message)
  IN IF r.thrown = <<>> THEN r.ctx
     ELSE [r.ctx EXCEPT !.out = [s \in Sockets |-> Append(@[s], mapMessage(r.thrown[1]))]]

\* A "message" listener that drops what is thrown.
messageHandlerSwallow(ctx, socket, message) ==
  handleIncomingMessage(ctx, socket, message).ctx

\* The "message" listener: handle the message, write what it throws.
messageHandler(ctx, socket, message) ==
  LET r == handleIncomingMessage(ctx, socket, message)
  IN IF r.thrown = <<>> THEN r.ctx ELSE emitWrite(r.ctx, socket, r.thrown[1])

\* A "close" listener that leaves the subscriptions as they are.
closeHandlerSkip(ctx, socket) == ctx

\* The "close" listener.
closeHandler(ctx, socket) == unsubscribeAll(ctx, socket)

Welcome == JsString("Connected to Seedlink Proxy.", <<>>)

\* SeedlinkWebsocket.prototype.attachSocketHandlers, without the flag.
attachSocketHandlers(ctx, socket) ==
  LET c1 == emitWrite(ctx, socket, Welcome)
      c2 == on(c1, socket, "close")
      c3 == on(c2, socket, "write")
      c4 == on(c3, socket, "message")
  IN on(c4, socket, "pong")

----------------------------------------------------------------------------
\* The heartbeat.

Ping == Frame("ping", "", <<>>, FALSE)

\* socket.terminate(): an open socket is destroyed; its close event follows.
terminate(st) == IF st = "open" THEN "closing" ELSE st

\* checkHeartbeat that pings but never terminates.
checkHeartbeatLenient(st, fl) == [state |-> st, flag |-> FALSE, sent |-> <<Ping>>]

\* checkHeartbeat that pings the socket it terminates.
checkHeartbeatPingAll(st, fl) ==
  IF ~fl
    THEN [state |-> terminate(st), flag |-> fl,    sent |-> <<Ping>>]
    ELSE [state |-> st,            flag |-> FALSE, sent |-> <<Ping>>]

\* SeedlinkWebsocket.prototype.checkHeartbeat on a socket in state st with
\* __receivedHeartbeat fl: the state and flag after it, and the ping sent.
checkHeartbeat(st, fl) ==
  IF ~fl
    THEN [state |-> terminate(st), flag |-> fl,    sent |-> <<>>]
    ELSE [state |-> st,            flag |-> FALSE, sent |-> <<Ping>>]

\* this.websocket.clients: the sockets whose close event has not been emitted.
clients == {s \in Sockets : state[s] \in {"open", "closing"}}

Min(a, b) == IF a < b THEN a ELSE b

----------------------------------------------------------------------------
\* The state machine.

NoMessage == [parse |-> "none", obj |-> <<>>]
Event(op, socket, message) == [op |-> op, socket |-> socket, message |-> message]

\* The messages the clients send in the runs of the whole server.
Messages ==
  { Garbage,
    Object([subscribe |-> Str(NameHGN)]),
    Object([subscribe |-> Str(NameOPLO)]),
    Object([subscribe |-> Str(NameNone)]),
    Object([unsubscribe |-> Str(NameHGN)]),
    Object([info |-> Str(NameHGN)]),
    Object([channels |-> JTrue]),
    Object([foo |-> Str(<<98, 97, 114>>), subscribe |-> Str(NameOPLO)]) }

\* The constructor: channels created, heartbeat enabled, signal handlers set.
Init ==
  /\ channels = createSeedlinkProxies(ChannelConfig, <<>>)
  /\ subscribers = [n \in ChannelNames |-> NoSockets]
  /\ debug \in BOOLEAN
  /\ listening = TRUE
  /\ interval = TRUE
  /\ signals = {"SIGINT", "SIGTERM"}
  /\ state = [s \in Sockets |-> "idle"]
  /\ listeners = [s \in Sockets |-> {}]
  /\ flag = [s \in Sockets |-> FALSE]
  /\ ponged = [s \in Sockets |-> FALSE]
  /\ ticks = [s \in Sockets |-> 0]
  /\ out = [s \in Sockets |-> <<>>]
  /\ last = Event("start", 0, NoMessage)
  /\ pre = subscribers

\* websocket.on("connection"): a client connects and gets the next socket.
Connection(s) ==
  /\ listening
  /\ state[s] = "idle"
  /\ \A r \in Sockets : r < s => state[r] # "idle"
  /\ LET ctx == attachSocketHandlers(Context(subscribers, listeners), s)
     IN /\ subscribers' = ctx.subs
        /\ listeners' = ctx.listeners
        /\ out' = ctx.out
  /\ state' = [state EXCEPT ![s] = "open"]
  /\ flag' = [flag EXCEPT ![s] = TRUE]
  /\ last' = Event("connection", s, NoMessage)
  /\ pre' = subscribers
  /\ UNCHANGED <<channels, debug, listening, interval, signals, ponged, ticks>>

\* A "message" listener that takes a message as a sign of life.
MessageAlive(s, m) ==
  /\ state[s] = "open"
  /\ "message" \in listeners[s]
  /\ LET ctx == messageHandler(Context(subscribers, listeners), s, m)
     IN /\ subscribers' = ctx.subs
        /\ listeners' = ctx.listeners
        /\ out' = ctx.out
  /\ flag' = [flag EXCEPT ![s] = TRUE]
  /\ last' = Event("message", s, m)
  /\ pre' = subscribers
  /\ UNCHANGED <<channels, debug, listening, interval, signals, state,
                 ponged, ticks>>

\* socket.on("message"): the client of an open socket sends message m.
Message(s, m) ==
  /\ state[s] = "open"
  /\ "message" \in listeners[s]
  /\ LET ctx == messageHandler(Context(subscribers, listeners), s, m)
     IN /\ subscribers' = ctx.subs
        /\ listeners' = ctx.listeners
        /\ out' = ctx.out
  /\ last' = Event("message", s, m)
  /\ pre' = subscribers
  /\ UNCHANGED <<channels, debug, listening, interval, signals, state, flag,
                 ponged, ticks>>

\* The close event of a socket in state from: its close listener runs.
Closed(s, from, op) ==
  /\ state[s] = from
  /\ LET c0 == Context(subscribers, listeners)
         ctx == IF "close" \in listeners[s] THEN closeHandler(c0, s) ELSE c0
     IN /\ subscribers' = ctx.subs
        /\ listeners' = ctx.listeners
        /\ out' = ctx.out
  /\ state' = [state EXCEPT ![s] = "closed"]
  /\ last' = Event(op, s, NoMessage)
  /\ pre' = subscribers
  /\ UNCHANGED <<channels, debug, listening, interval, signals, flag, ponged, ticks>>

\* The client closes its connection.
ClientClose(s) == Closed(s, "open", "close")

\* The close event of a socket that the server has terminated.
SocketClosed(s) == Closed(s, "closing", "closed")

\* socket.on("pong"): heartbeat()
Pong(s) ==
  /\ state[s] = "open"
  /\ "pong" \in listeners[s]
  /\ flag' = [flag EXCEPT ![s] = TRUE]
  /\ ponged' = [ponged EXCEPT ![s] = TRUE]
  /\ out' = [r \in Sockets |-> <<>>]
  /\ last' = Event("pong", s, NoMessage)
  /\ pre' = subscribers
  /\ UNCHANGED <<channels, subscribers, debug, listening, interval, signals,
                 state, listeners, ticks>>

\* The heartbeat interval fires: checkHeartbeat on every client.
HeartbeatTick ==
  /\ interval
  /\ state' = [s \in Sockets |->
                 IF s \in clients THEN checkHeartbeat(state[s], flag[s]).state
                 ELSE state[s]]
  /\ flag' = [s \in Sockets |->
                IF s \in clients THEN checkHeartbeat(state[s], flag[s]).flag
                ELSE flag[s]]
  /\ out' = [s \in Sockets |->
               IF s \in clients THEN checkHeartbeat(state[s], flag[s]).sent
               ELSE <<>>]
  /\ ticks' = [s \in Sockets |->
                 IF state[s] = "open" /\ ~ponged[s]
                   THEN Min(ticks[s] + 1, MaxTicks) ELSE ticks[s]]
  /\ last' = Event("tick", 0, NoMessage)
  /\ pre' = subscribers
  /\ UNCHANGED <<channels, subscribers, debug, listening, interval, signals,
                 listeners, ponged>>

\* close() that does not clear the heartbeat interval.
ShutdownKeepsInterval(sig, terminates) ==
  /\ sig \in signals
  /\ signals' = signals \ {sig}
  /\ interval' = interval
  /\ listening' = FALSE
  /\ state' = [s \in Sockets |-> IF terminates THEN terminate(state[s]) ELSE state[s]]
  /\ out' = [s \in Sockets |-> <<>>]
  /\ last' = [op |-> "shutdown", socket |-> 0, message |-> [parse |-> "none", obj |-> <<>>]]
  /\ pre' = subscribers
  /\ UNCHANGED <<channels, subscribers, debug, listeners, flag, ponged, ticks>>

\* SeedlinkWebsocket.prototype.close on a termination signal.  Whether
\* websocket.close() terminates the clients depends on the ws release.
Shutdown(sig, terminates) ==
  /\ sig \in signals
  /\ signals' = signals \ {sig}
  /\ interval' = FALSE
  /\ listening' = FALSE
  /\ state' = [s \in Sockets |-> IF terminates THEN terminate(state[s]) ELSE state[s]]
  /\ out' = [s \in Sockets |-> <<>>]
  /\ last' = Event("shutdown", 0, NoMessage)
  /\ pre' = subscribers
  /\ UNCHANGED <<channels, subscribers, debug, listeners, flag, ponged, ticks>>

\* The proxy of channel name emits a record to each of its sockets.
RECURSIVE writeAll(_, _, _)
writeAll(ctx, to, object) ==
  IF to = {} THEN ctx
  ELSE LET s == CHOOSE x \in to : TRUE
       IN writeAll(emitWrite(ctx, s, object), to \ {s}, object)

Emission(name) ==
  /\ LET ctx == writeAll(Context(subscribers, listeners),
                         membersOf(subscribers, name), JsRecord(name))
     IN /\ subscribers' = ctx.subs
        /\ listeners' = ctx.listeners
        /\ out' = ctx.out
  /\ last' = Event("emission", 0, [parse |-> "none", obj |-> name])
  /\ pre' = subscribers
  /\ UNCHANGED <<channels, debug, listening, interval, signals, state, flag,
                 ponged, ticks>>

Next ==
  \/ \E s \in Sockets : Connection(s)
  \/ \E s \in Sockets, m \in Messages : Message(s, m)
  \/ \E s \in Sockets : ClientClose(s)
  \/ \E s \in Sockets : SocketClosed(s)
  \/ \E s \in Sockets : Pong(s)
  \/ HeartbeatTick
  \/ \E sig \in {"SIGINT", "SIGTERM"}, t \in BOOLEAN : Shutdown(sig, t)
  \/ \E name \in ChannelNames : Emission(name)

Spec == Init /\ [][Next]_vars

\* The dispatcher as a function: any registry, every message, one step.
InitDispatch ==
  /\ channels = createSeedlinkProxies(ChannelConfig, <<>>)
  /\ subscribers \in [ChannelNames -> [Sockets -> {0, 1}]]
  /\ debug \in BOOLEAN
  /\ listening = TRUE
  /\ interval = TRUE
  /\ signals = {"SIGINT", "SIGTERM"}
  /\ state = [s \in Sockets |-> "open"]
  /\ listeners = [s \in Sockets |-> {"close", "write", "message", "pong"}]
  /\ flag = [s \in Sockets |-> TRUE]
  /\ ponged = [s \in Sockets |-> FALSE]
  /\ ticks = [s \in Sockets |-> 0]
  /\ out = [s \in Sockets |-> <<>>]
  /\ last = Event("start", 0, NoMessage)
  /\ pre = subscribers

NextDispatch ==
  /\ last.op = "start"
  /\ \E s \in Sockets, m \in AllMessages : Message(s, m)

SpecDispatch == InitDispatch /\ [][NextDispatch]_vars

----------------------------------------------------------------------------
\* Properties.

SubscribeTo(name) == Object([subscribe |-> Str(name)])
UnsubscribeFrom(name) == Object([unsubscribe |-> Str(name)])
InfoOn(name) == Object([info |-> Str(name)])
ListChannels == Object([channels |-> JTrue])

Silent == [s \in Sockets |-> <<>>]
RecordFrame(name) == Frame("object", "record", name, FALSE)

\* C1: a connection is in the subscriber collection of a channel at most
\* once, whatever subscribe and unsubscribe messages have been handled.
C1_MembershipAtMostOnce ==
  \A name \in ChannelNames : \A s \in Sockets : subscribers[name][s] <= 1

\* A member of a channel has subscribed to it again.
C1_RepeatedSubscribe ==
  /\ last.op = "message"
  /\ last.message = SubscribeTo(NameHGN)
  /\ pre[NameHGN][last.socket] = 1
  /\ subscribers[NameHGN][last.socket] = 1

\* C2: once the close event of a connection has been handled it is a member
\* of no channel, and no later step (an emission on any channel included)
\* sends it a frame.
C2_ClosedIsGone ==
  \A s \in Sockets :
    state[s] = "closed"
      => /\ \A name \in ChannelNames : subscribers[name][s] = 0
         /\ out[s] = <<>>
         /\ (last.op \in {"close", "closed"} /\ last.socket = s)
              \/ (\A name \in ChannelNames : pre[name][s] = 0)

\* A channel emits to its remaining member after another connection closed.
C2_EmissionAfterClose ==
  /\ last.op = "emission"
  /\ \E s \in Sockets : state[s] = "closed"
  /\ \E r \in Sockets : out[r] = <<RecordFrame(last.message.obj)>>

\* The last step handled a message that decoded to an object.
HandledObject == last.op = "message" /\ last.message.parse = "object"

Configured(v) == toString(v) \in ChannelNames

\* The key k of the object is there and names a channel that is not configured.
NamesUnknown(json, k) == k \in DOMAIN json /\ ~Configured(json[k])

\* The object names an unconfigured channel under subscribe or unsubscribe,
\* and no configured one under either.
OnlyUnknownChannels(json) ==
  /\ \E k \in {"subscribe", "unsubscribe"} : NamesUnknown(json, k)
  /\ \A k \in {"subscribe", "unsubscribe"} : k \in DOMAIN json => NamesUnknown(json, k)

HasError(frames) == \E i \in 1..Len(frames) : frames[i].type = "error"

InvalidOperationText ==
  "Invalid operation requested. Expected: subscribe, unsubscribe, channels, info"

\* C4: a message with a key outside subscribe, unsubscribe, channels, info
\* executes none of its operations: no collection changes and the only frame
\* sent is one error reply to the sender with the invalid-operation text.
C4_UnknownKeyRejectsAll ==
  HandledObject
    /\ (\E k \in DOMAIN last.message.obj :
          k \notin {"subscribe", "unsubscribe", "channels", "info"})
    => /\ subscribers = pre
       /\ out = [Silent EXCEPT ![last.socket] =
                   <<Frame("error", InvalidOperationText, <<>>, debug)>>]

\* A message with an unknown key also asked for four operations that would
\* each have had an effect.
C4_RejectedWithOperations ==
  /\ last.op = "message"
  /\ last.message = Object([foo |-> Str(<<98, 97, 114>>), subscribe |-> Str(NameHGN),
                            unsubscribe |-> Str(NameOPLO), info |-> Str(NameHGN),
                            channels |-> JTrue])
  /\ pre[NameHGN][last.socket] = 0
  /\ pre[NameOPLO][last.socket] = 1
  /\ Len(out[last.socket]) = 1

\* C8: an unsubscribe for a configured channel from a connection that is not
\* a member of it changes no collection and sends no frame at all.
C8_UnsubscribeNonMember ==
  \A name \in ChannelNames :
    last.op = "message" /\ last.message = UnsubscribeFrom(name)
      /\ pre[name][last.socket] = 0
      => subscribers = pre /\ out = Silent

\* A non-member has unsubscribed while the other connection is a member.
C8_NonMemberUnsubscribed ==
  /\ last.op = "message"
  /\ last.message = UnsubscribeFrom(NameHGN)
  /\ pre[NameHGN][last.socket] = 0
  /\ \E r \in Sockets : pre[NameHGN][r] = 1

\* The configured names in strictly increasing code-unit order.
SortedNames ==
  CHOOSE q \in [1..Cardinality(ChannelNames) -> ChannelNames] :
    \A i, j \in DOMAIN q : i < j => LexLess(q[i], q[j])

RECURSIVE SpaceJoined(_)
SpaceJoined(xs) ==
  IF xs = <<>> THEN <<>>
  ELSE IF Len(xs) = 1 THEN Head(xs)
  ELSE Head(xs) \o <<32>> \o SpaceJoined(Tail(xs))

ChannelsText == SpaceJoined(SortedNames)

\* The selectors of a configured channel, each as net.sta.loc.chan.
DotJoined(x) ==
  x.network \o <<46>> \o x.station \o <<46>> \o x.location \o <<46>> \o x.channel

InfoText(name) ==
  LET c == ChannelConfig[CHOOSE i \in 1..Len(ChannelConfig) : ChannelConfig[i].name = name]
  IN SpaceJoined([i \in 1..Len(c.selectors) |-> DotJoined(c.selectors[i])])

\* C5 as stated: a connection that has answered no ping is force-closed at
\* the latest by the second heartbeat tick after it connected, and from that
\* eviction on it is a member of no channel.
C5_EvictedAndRemovedAtSecondTick ==
  \A s \in Sockets :
    ~ponged[s] /\ ticks[s] >= 2
      => /\ state[s] \in {"closing", "closed"}
         /\ \A name \in ChannelNames : subscribers[name][s] = 0

\* C5 as amended: it is force-closed at the latest by the second tick, and
\* it is a member of no channel once the close event of the socket, which
\* follows the force-close, has been handled.
C5_EvictedAtSecondTick ==
  \A s \in Sockets :
    ~ponged[s] /\ ticks[s] >= 2
      => /\ state[s] \in {"closing", "closed"}
         /\ state[s] = "closed" => \A name \in ChannelNames : subscribers[name][s] = 0

\* A subscribed connection that never sent a pong was terminated by its
\* second tick and its close event has just been handled.
C5_SilentClientEvicted ==
  /\ last.op = "closed"
  /\ ~ponged[last.socket]
  /\ ticks[last.socket] = 2
  /\ pre[NameHGN][last.socket] = 1
  /\ state[last.socket] = "closed"

WelcomeFrame == Frame("success", "Connected to Seedlink Proxy.", <<>>, FALSE)

\* C6: when a connection is accepted the welcome frame is sent to it, as the
\* first frame it receives.
C6_WelcomeIsFirstFrame ==
  last.op = "connection"
    => out[last.socket] # <<>> /\ Head(out[last.socket]) = WelcomeFrame

\* C7: {channels: true} is answered by one success reply that holds all the
\* configured channel names, sorted and joined by spaces, whatever the
\* subscriber collections are.
C7_ChannelsListsAllSorted ==
  last.op = "message" /\ last.message = ListChannels
    => out = [Silent EXCEPT ![last.socket] = <<Frame("success", "", ChannelsText, FALSE)>>]

\* The list has been asked for by a member of a channel.
C7_ListedWhileSubscribed ==
  /\ last.op = "message"
  /\ last.message = ListChannels
  /\ subscribers[NameHGN][last.socket] = 1
  /\ \E r \in Sockets : r # last.socket /\ subscribers[NameOPLO][r] = 1

SubscriptionError(v) ==
  Frame("error", "Invalid channel subscription requested: ", toString(v), debug)
UnsubscriptionError(v) ==
  Frame("error", "Invalid channel unsubscription requested: ", toString(v), debug)

\* The replies to the operations of a valid object, in the order subscribe,
\* unsubscribe, info, channels; each depends on its own key alone.
RepliesInOrder(json) ==
  (IF given(json, "subscribe") /\ ~Configured(json["subscribe"])
     THEN <<SubscriptionError(json["subscribe"])>> ELSE <<>>)
  \o (IF given(json, "unsubscribe") /\ ~Configured(json["unsubscribe"])
        THEN <<UnsubscriptionError(json["unsubscribe"])>> ELSE <<>>)
  \o (IF given(json, "info") /\ Configured(json["info"])
        THEN <<Frame("success", "", InfoText(toString(json["info"])), FALSE)>> ELSE <<>>)
  \o (IF given(json, "channels")
        THEN <<Frame("success", "", ChannelsText, FALSE)>> ELSE <<>>)

\* C9: a valid message with several keys runs its operations in the order
\* subscribe, unsubscribe, info, channels, each whatever the outcome of the
\* others; the replies come in that order, and subscribe and unsubscribe of
\* the same configured channel leave the sender not subscribed to it.
C9_FixedOrder ==
  HandledObject /\ DOMAIN last.message.obj \subseteq {"subscribe", "unsubscribe", "info", "channels"}
    => LET json == last.message.obj
       IN /\ out = [Silent EXCEPT ![last.socket] = RepliesInOrder(json)]
          /\ \A name \in ChannelNames :
               /\ "subscribe" \in DOMAIN json /\ json["subscribe"] = Str(name)
               /\ "unsubscribe" \in DOMAIN json /\ json["unsubscribe"] = Str(name)
               => subscribers[name][last.socket] = 0

\* A message whose subscribe failed went on to unsubscribe, info and channels.
C9_LaterOperationsRun ==
  /\ last.op = "message"
  /\ last.message = Object([subscribe |-> Str(NameNone), unsubscribe |-> Str(NameHGN),
                            info |-> Str(NameHGN), channels |-> JTrue])
  /\ pre[NameHGN][last.socket] = 1
  /\ subscribers[NameHGN][last.socket] = 0
  /\ Len(out[last.socket]) = 3

\* C10: info on a configured channel is answered by one success reply that
\* lists its selectors; info on an unconfigured channel sends nothing and
\* changes nothing.
C10_InfoReply ==
  \A v \in ValuesOf("info") :
    last.op = "message" /\ last.message = Object([info |-> v])
      => /\ subscribers = pre
         /\ out = [Silent EXCEPT ![last.socket] =
                     IF Configured(v)
                       THEN <<Frame("success", "", InfoText(toString(v)), FALSE)>>
                       ELSE <<>>]

\* Info has been asked on a channel that is not configured.
C10_InfoOnUnknown ==
  /\ last.op = "message"
  /\ last.message = InfoOn(NameNone)
  /\ out[last.socket] = <<>>

----------------------------------------------------------------------------
\* Shutdown.

\* C11: in the state a termination request leaves, no connection is open:
\* every connection that was open has been force-closed by the shutdown.
C11_ShutdownForceCloses ==
  last.op = "shutdown" => \A s \in Sockets : state[s] # "open"

----------------------------------------------------------------------------
\* Isolation of a message's effects.

\* C12: the step that handles a message of a connection, a failing message
\* included, sends no frame to any other connection, changes no other
\* connection's membership of any channel and closes no connection.
C12_MessageIsLocal ==
  [][last'.op = "message" =>
       /\ state' = state
       /\ \A r \in Sockets \ {last'.socket} :
            /\ out'[r] = <<>>
            /\ \A name \in ChannelNames : subscribers'[name][r] = subscribers[name][r]]_vars

\* A message that failed to decode was answered while the other connection
\* was subscribed.
C12_FailedBesideSubscriber ==
  /\ last.op = "message"
  /\ last.message = Garbage
  /\ HasError(out[last.socket])
  /\ \E r \in Sockets \ {last.socket} : state[r] = "open" /\ subscribers[NameHGN][r] = 1

----------------------------------------------------------------------------
\* The frames written.

\* C13: every value written to a connection is wrapped by its kind: an
\* Error as an error frame that carries its message, with the stack only in
\* debug mode; a text as a success frame; a record as it is.  With debug off
\* no frame carries a stack.
C13_WrappedByKind ==
  /\ \A s \in Sockets : \A i \in 1..Len(out[s]) :
       LET f == out[s][i]
       IN /\ f.type \in {"error", "success", "object", "ping"}
          /\ f.type = "error" => f.stack = debug
          /\ f.type # "error" => ~f.stack
          /\ ~debug => ~f.stack
  /\ last.op = "message" /\ last.message = Garbage
       => out[last.socket] = <<Frame("error", "Unexpected token in JSON", <<>>, debug)>>
  /\ last.op = "message" /\ last.message = SubscribeTo(NameNone)
       => out[last.socket] =
            <<Frame("error", "Invalid channel subscription requested: ", NameNone, debug)>>
  /\ last.op = "message" /\ last.message = ListChannels
       => out[last.socket] = <<Frame("success", "", ChannelsText, FALSE)>>
  /\ last.op = "emission"
       => \A s \in Sockets : out[s] \in {<<>>, <<RecordFrame(last.message.obj)>>}

\* With debug off, an Error has been written to a connection.
C13_ErrorWithoutStack ==
  /\ ~debug
  /\ last.op = "message"
  /\ out[last.socket] # <<>>
  /\ out[last.socket][1].type = "error"
  /\ ~out[last.socket][1].stack

----------------------------------------------------------------------------
\* Subscribers and the connection lifecycle.

\* C14 as stated: every member of a subscriber collection is an open
\* connection, a force-closed one being removed in the step that closes it.
C14_MembersAreOpen ==
  \A name \in ChannelNames : \A s \in Sockets :
    subscribers[name][s] > 0 => state[s] = "open"

\* C14: every member of a subscriber collection is a connection whose close
\* event has not been handled yet: one that is open, or one that has been
\* force-closed and whose close event is still to come.  The step that
\* handles the close event of a connection removes it from every collection.
C14_MembersNotYetClosed ==
  /\ \A name \in ChannelNames : \A s \in Sockets :
       subscribers[name][s] > 0 => state[s] \in {"open", "closing"}
  /\ last.op \in {"close", "closed"}
       => \A name \in ChannelNames : subscribers[name][last.socket] = 0

\* A record was written to a subscriber that had been force-closed and whose
\* close event had not been handled.
C14_EmissionFindsTerminated ==
  /\ last.op = "emission"
  /\ \E s \in Sockets : state[s] = "closing" /\ out[s] # <<>>

----------------------------------------------------------------------------
\* The heartbeat.

\* C15: a heartbeat tick treats every open connection in exactly one of two
\* ways: with the liveness flag false the connection is force-closed and not
\* pinged; with the flag true the flag is set to false and one ping is sent.
\* A new connection has the flag true and a pong sets it true, so that a
\* connection is not evicted at its first tick, nor at a tick that its pong
\* of the previous ping has preceded.
C15_TickTreatsEachOnce ==
  [][/\ last'.op = "tick" =>
          \A s \in Sockets : state[s] = "open" =>
            IF flag[s]
              THEN state'[s] = "open" /\ ~flag'[s] /\ out'[s] = <<Ping>>
              ELSE state'[s] = "closing" /\ out'[s] = <<>>
     /\ last'.op \in {"connection", "pong"} => flag'[last'.socket]
     /\ \A s \in Sockets :
          last'.op = "tick" /\ state[s] = "open" /\ state'[s] = "closing" /\ ~ponged[s]
            => ticks'[s] >= 2]_vars

\* One tick has evicted a connection and pinged the other.
C15_OneEvictedOnePinged ==
  /\ last.op = "tick"
  /\ \E s, r \in Sockets :
       /\ state[s] = "closing" /\ out[s] = <<>>
       /\ state[r] = "open" /\ out[r] = <<Ping>> /\ ponged[r]

\* C16: once a termination signal has been handled the heartbeat interval is
\* cleared and no tick fires any more: no ping is sent and no connection is
\* evicted by the heartbeat, after a second termination signal as well.
C16_NoTickAfterShutdown ==
  signals # {"SIGINT", "SIGTERM"} =>
    /\ ~interval
    /\ last.op # "tick"
    /\ \A s \in Sockets : \A i \in 1..Len(out[s]) : out[s][i] # Ping

\* Both termination signals have been handled and a connection that has not
\* answered its ping is open.
C16_UnansweredAfterSecondSignal ==
  /\ signals = {}
  /\ \E s \in Sockets : state[s] = "open" /\ ~flag[s] /\ ticks[s] = 1

----------------------------------------------------------------------------
\* Messages and the rest of the state.

\* C17: a message that cannot be decoded is answered by exactly one error
\* frame to its sender and has no other effect: no connection changes state,
\* no subscriber collection and no liveness flag changes, nor anything else
\* that the handling of a later message depends on.
C17_UndecodableOnlyAnswered ==
  [][last'.op = "message" /\ last'.message = Garbage =>
       /\ out' = [Silent EXCEPT ![last'.socket] =
                    <<Frame("error", "Unexpected token in JSON", <<>>, debug)>>]
       /\ state'[last'.socket] = "open"
       /\ UNCHANGED <<channels, subscribers, debug, listening, interval, signals,
                      state, listeners, flag>>]_vars

\* An undecodable message came from a subscriber whose liveness flag was
\* false, and left both as they were.
C17_UndecodableFromSubscriber ==
  /\ last.op = "message"
  /\ last.message = Garbage
  /\ Len(out[last.socket]) = 1
  /\ subscribers[NameHGN][last.socket] = 1
  /\ ~flag[last.socket]

\* C18: the step that handles the close of a connection, whether it was
\* subscribed to every channel, to some or to none, sends no frame to any
\* connection and leaves the memberships of every other connection as they
\* were.
C18_CloseIsSilent ==
  last.op \in {"close", "closed"} =>
    /\ out = Silent
    /\ \A name \in ChannelNames : \A r \in Sockets \ {last.socket} :
         subscribers[name][r] = pre[name][r]

\* A connection subscribed to one channel of the two has closed while the
\* other connection was subscribed.
C18_ClosedWithSomeChannels ==
  /\ last.op = "close"
  /\ pre[NameHGN][last.socket] = 1
  /\ pre[NameOPLO][last.socket] = 0
  /\ \E r \in Sockets \ {last.socket} : subscribers[NameHGN][r] = 1

\* C19: the liveness flag of a connection is changed by a heartbeat tick, to
\* false, and by a pong of that connection, to true, and by nothing else; the
\* handling of a message leaves every flag as it is, so that a connection that
\* sends messages but never answers a ping is no longer open after its
\* second tick.
C19_FlagOnlyByTickAndPong ==
  [][/\ \A s \in Sockets : state[s] # "idle" /\ flag'[s] # flag[s] =>
          \/ last'.op = "tick" /\ ~flag'[s]
          \/ last'.op = "pong" /\ last'.socket = s /\ flag'[s]
     /\ last'.op = "message" => flag' = flag
     /\ \A s \in Sockets : ~ponged'[s] /\ ticks'[s] >= 2 => state'[s] # "open"]_vars

\* A connection that has not answered the ping of its first tick has had a
\* command answered.
C19_CommandAfterUnansweredPing ==
  /\ last.op = "message"
  /\ state[last.socket] = "open"
  /\ ticks[last.socket] = 1
  /\ ~ponged[last.socket]
  /\ ~flag[last.socket]
  /\ out[last.socket] # <<>>

----------------------------------------------------------------------------
\* Falsy values.

\* The values that are falsy: the empty string, false, 0 and null.
Falsy == {Str(<<>>), JFalse, JZero, JNull}

\* The object without its keys of a falsy value.
WithoutFalsy(json) == [k \in {x \in DOMAIN json : json[x] \notin Falsy} |-> json[k]]

\* C20: in a message whose keys are all recognized, a key of a falsy value
\* (empty string, false, 0, null) is as good as absent: the message has the
\* frames and the subscriber collections of the message without these keys,
\* and a message with no other key sends no frame and changes nothing.
C20_FalsyIsAbsent ==
  HandledObject /\ DOMAIN last.message.obj \subseteq {"subscribe", "unsubscribe", "info", "channels"}
    => LET live == WithoutFalsy(last.message.obj)
           ctx == messageHandler(Context(pre, listeners), last.socket, Object(live))
       IN /\ out = ctx.out
          /\ subscribers = ctx.subs
          /\ out = [Silent EXCEPT ![last.socket] = RepliesInOrder(live)]
          /\ DOMAIN live = {} => out = Silent /\ subscribers = pre

\* A subscriber has sent a message with each of the four falsy values.
C20_AllFalsy ==
  /\ last.op = "message"
  /\ last.message = Object([subscribe |-> JZero, unsubscribe |-> JNull,
                            info |-> Str(<<>>), channels |-> JFalse])
  /\ pre[NameHGN][last.socket] = 1
  /\ subscribers = pre
  /\ out = Silent

====
